---- MODULE Spec2Model ----
(***************************************************************************)
(* Model of the emotion-recognition server of app.py: the configuration    *)
(* store (current_camera_index, current_model_type), the three backends'   *)
(* availability, the HTTP handlers /health, /api/cameras, /api/models,     *)
(* /api/settings and /predict, and the three process_frame_with_* adapters.*)
(*                                                                         *)
(* One request is handled at a time in Spec: a handler runs from request   *)
(* to response as one action, and SendResponse hands the response to the   *)
(* client.  Real numbers (confidences, scores) are exact rationals         *)
(* [n |-> numerator, d |-> denominator]; text labels are tuples of         *)
(* one-character strings so that str.capitalize can be computed.           *)
(***************************************************************************)
EXTENDS Integers, Sequences, FiniteSets, TLC

VARIABLES
    phase,                  \* "loaded" (module body executed) or "serving"
    DEEPFACE_AVAILABLE,     \* app.py:15,39
    ONNX_SESSION,           \* TRUE iff ONNX_SESSION is not None
    KERAS_MODEL,            \* TRUE iff KERAS_MODEL is not None
    current_camera_index,   \* app.py:54
    current_model_type,     \* app.py:55
    request,                \* the request being answered (NoRequest when idle)
    pre,                    \* the store as it was when that request arrived
    results,                \* the adapter's result list of that request
    calls,                  \* the library calls made while handling it
    response,               \* the response produced (NoResponse when idle)
    threads,                \* SpecThreaded: each worker thread's request and position
    face_img,               \* SpecPreprocess: the face region handed to a preprocessor
    tensor,                 \* SpecPreprocess: what the preprocessor returned
    first_run               \* SpecTwin: a POST /predict kept to be repeated

vars == <<phase, DEEPFACE_AVAILABLE, ONNX_SESSION, KERAS_MODEL,
          current_camera_index, current_model_type,
          request, pre, results, calls, response,
          threads, face_img, tensor, first_run>>

\* the variables of the other specifications
aux == <<threads, face_img, tensor, first_run>>

backends == <<DEEPFACE_AVAILABLE, ONNX_SESSION, KERAS_MODEL>>
store == <<current_camera_index, current_model_type>>

(***************************************************************************)
(* Bounds                                                                  *)
(***************************************************************************)
MaxCameraIndex == 1
MaxFaces == 2

CameraIndexes == (-1)..MaxCameraIndex

(***************************************************************************)
(* Text                                                                    *)
(***************************************************************************)
Lowers == <<"a","b","c","d","e","f","g","h","i","j","k","l","m",
            "n","o","p","q","r","s","t","u","v","w","x","y","z">>
Uppers == <<"A","B","C","D","E","F","G","H","I","J","K","L","M",
            "N","O","P","Q","R","S","T","U","V","W","X","Y","Z">>

upper(c) ==
    IF \E i \in DOMAIN Lowers : Lowers[i] = c
    THEN Uppers[CHOOSE i \in DOMAIN Lowers : Lowers[i] = c]
    ELSE c

lower(c) ==
    IF \E i \in DOMAIN Uppers : Uppers[i] = c
    THEN Lowers[CHOOSE i \in DOMAIN Uppers : Uppers[i] = c]
    ELSE c

\* str.capitalize(): first character upper-cased, the rest lower-cased
capitalize(s) ==
    [i \in DOMAIN s |-> IF i = 1 THEN upper(s[i]) ELSE lower(s[i])]

EMOTION_LABELS ==
    << <<"A","n","g","r","y">>,
       <<"D","i","s","g","u","s","t">>,
       <<"F","e","a","r">>,
       <<"H","a","p","p","y">>,
       <<"N","e","u","t","r","a","l">>,
       <<"S","a","d">>,
       <<"S","u","r","p","r","i","s","e">> >>

(***************************************************************************)
(* Rationals                                                               *)
(***************************************************************************)
Rat(n, d) == [n |-> n, d |-> d]
RatLeq(a, b) == a.n * b.d <= b.n * a.d
RatLess(a, b) == a.n * b.d < b.n * a.d
RatEq(a, b) == a.n * b.d = b.n * a.d
RatDiv(a, k) == [n |-> a.n, d |-> a.d * k]

(***************************************************************************)
(* Idle values                                                             *)
(***************************************************************************)
NoRequest == [endpoint |-> "none"]
NoResponse == [status |-> 0]
NoStore == [camera_index |-> 0, model_type |-> "none"]
NoArray == [shape |-> <<>>, lo |-> 0, hi |-> 0, scale |-> 1]
NoRun == [runs |-> 0]

StoreNow == [camera_index |-> current_camera_index,
             model_type |-> current_model_type]

Idle == response = NoResponse

ModelIds == {"deepface", "onnx", "keras"}

(***************************************************************************)
(* Module body, app.py:12-55                                               *)
(***************************************************************************)
Init ==
    /\ phase = "loaded"
    /\ DEEPFACE_AVAILABLE \in BOOLEAN
    /\ ONNX_SESSION \in BOOLEAN
    /\ KERAS_MODEL \in BOOLEAN
    /\ current_camera_index = 0
    /\ current_model_type = "deepface"
    /\ request = NoRequest
    /\ pre = NoStore
    /\ results = <<>>
    /\ calls = <<>>
    /\ response = NoResponse
    /\ threads = <<>>
    /\ face_img = NoArray
    /\ tensor = NoArray
    /\ first_run = NoRun

(***************************************************************************)
(* Camera enumeration, app.py:57-81                                        *)
(***************************************************************************)
Camera(i, working) ==
    [index |-> i, name |-> <<"Camera", i>>, working |-> working]

\* what the probe of the camera devices can report: each index 0..MaxCameraIndex
\* is absent, opened but black, or working; the list is in index order
RECURSIVE CameraListsUpTo(_)
CameraListsUpTo(k) ==
    IF k < 0 THEN { <<>> }
    ELSE LET shorter == CameraListsUpTo(k - 1)
         IN  shorter
             \cup { Append(l, Camera(k, TRUE)) : l \in shorter }
             \cup { Append(l, Camera(k, FALSE)) : l \in shorter }

enumerate_cameras == CameraListsUpTo(MaxCameraIndex)

\* next((cam for cam in cameras if cam['working']), None)
HasWorking(cameras) == \E i \in DOMAIN cameras : cameras[i].working
FirstWorking(cameras) ==
    cameras[CHOOSE i \in DOMAIN cameras :
                /\ cameras[i].working
                /\ \A j \in DOMAIN cameras : cameras[j].working => i <= j]

(***************************************************************************)
(* Startup                                                                 *)
(***************************************************************************)
\* python app.py: the __main__ block, app.py:418-446
StartAsScript ==
    /\ phase = "loaded"
    /\ \E cameras \in enumerate_cameras :
          current_camera_index' =
              IF HasWorking(cameras) THEN FirstWorking(cameras).index
              ELSE current_camera_index
    /\ current_model_type' =
          IF DEEPFACE_AVAILABLE THEN "deepface"
          ELSE IF ONNX_SESSION THEN "onnx"
          ELSE IF KERAS_MODEL THEN "keras"
          ELSE current_model_type
    /\ phase' = "serving"
    /\ UNCHANGED <<aux, backends, request, pre, results, calls, response>>

\* the app object imported and served without the __main__ block
\* (a WSGI server, or the test client of tests/test_app.py)
StartAsImport ==
    /\ phase = "loaded"
    /\ phase' = "serving"
    /\ UNCHANGED <<aux, backends, store, request, pre, results, calls, response>>

(***************************************************************************)
(* GET /health, app.py:287-295                                             *)
(***************************************************************************)
\* a variant that reports deepface as available whenever the store names it
health_flag_from_store ==
    /\ phase = "serving" /\ Idle
    /\ request' = [endpoint |-> "health"]
    /\ pre' = StoreNow
    /\ response' = [status |-> 200,
                    body |-> [status |-> "healthy",
                              keras_available |-> KERAS_MODEL,
                              onnx_available |-> ONNX_SESSION,
                              deepface_available |->
                                  (DEEPFACE_AVAILABLE
                                   \/ current_model_type = "deepface")]]
    /\ results' = <<>>
    /\ calls' = <<>>
    /\ UNCHANGED <<aux, phase, backends, store>>

health ==
    /\ phase = "serving" /\ Idle
    /\ request' = [endpoint |-> "health"]
    /\ pre' = StoreNow
    /\ response' = [status |-> 200,
                    body |-> [status |-> "healthy",
                              keras_available |-> KERAS_MODEL,
                              onnx_available |-> ONNX_SESSION,
                              deepface_available |-> DEEPFACE_AVAILABLE]]
    /\ results' = <<>>
    /\ calls' = <<>>
    /\ UNCHANGED <<aux, phase, backends, store>>

(***************************************************************************)
(* GET /api/cameras, app.py:297-309                                        *)
(***************************************************************************)
\* a variant that switches the store to the recommended camera
get_cameras_selects_recommended ==
    /\ phase = "serving" /\ Idle
    /\ \E cameras \in enumerate_cameras :
          /\ request' = [endpoint |-> "cameras"]
          /\ current_camera_index' =
                IF HasWorking(cameras) THEN FirstWorking(cameras).index ELSE 0
          /\ response' =
                [status |-> 200,
                 body |-> [cameras |-> cameras,
                           current |-> current_camera_index,
                           recommended |->
                               IF HasWorking(cameras)
                               THEN FirstWorking(cameras).index ELSE 0]]
    /\ pre' = StoreNow
    /\ results' = <<>>
    /\ calls' = <<[fn |-> "enumerate_cameras", arg |-> 0]>>
    /\ UNCHANGED <<aux, phase, backends, current_model_type>>

get_cameras ==
    /\ phase = "serving" /\ Idle
    /\ \E cameras \in enumerate_cameras :
          /\ request' = [endpoint |-> "cameras"]
          /\ response' =
                [status |-> 200,
                 body |-> [cameras |-> cameras,
                           current |-> current_camera_index,
                           recommended |->
                               IF HasWorking(cameras)
                               THEN FirstWorking(cameras).index ELSE 0]]
    /\ pre' = StoreNow
    /\ results' = <<>>
    /\ calls' = <<[fn |-> "enumerate_cameras", arg |-> 0]>>
    /\ UNCHANGED <<aux, phase, backends, store>>

(***************************************************************************)
(* GET /api/models, app.py:311-334                                         *)
(***************************************************************************)
\* a variant that lists only the backends that loaded
ModelsListAvailableOnly ==
    (IF DEEPFACE_AVAILABLE
     THEN <<[id |-> "deepface", name |-> "DeepFace", available |-> TRUE]>>
     ELSE <<>>)
    \o (IF ONNX_SESSION
        THEN <<[id |-> "onnx", name |-> "ONNX Model", available |-> TRUE]>>
        ELSE <<>>)
    \o (IF KERAS_MODEL
        THEN <<[id |-> "keras", name |-> "Keras Model", available |-> TRUE]>>
        ELSE <<>>)

ModelsList ==
    << [id |-> "deepface", name |-> "DeepFace", available |-> DEEPFACE_AVAILABLE],
       [id |-> "onnx", name |-> "ONNX Model", available |-> ONNX_SESSION],
       [id |-> "keras", name |-> "Keras Model", available |-> KERAS_MODEL] >>

get_models ==
    /\ phase = "serving" /\ Idle
    /\ request' = [endpoint |-> "models"]
    /\ pre' = StoreNow
    /\ response' = [status |-> 200,
                    body |-> [models |-> ModelsList,
                              current |-> current_model_type]]
    /\ results' = <<>>
    /\ calls' = <<>>
    /\ UNCHANGED <<aux, phase, backends, store>>

(***************************************************************************)
(* POST /api/settings, app.py:336-360                                      *)
(***************************************************************************)
\* the model_type strings a client sends: the three ids and an unknown one
ModelTypeValues == ModelIds \cup {"nonexistent"}

EmptyBody == [k \in {} |-> 0]

\* JSON bodies {camera_index?: int, model_type?: string}
SettingsBodies ==
    {EmptyBody}
    \cup {[camera_index |-> c] : c \in CameraIndexes}
    \cup {[model_type |-> m] : m \in ModelTypeValues}
    \cup {[camera_index |-> c, model_type |-> m] :
              c \in CameraIndexes, m \in ModelTypeValues}

\* the if/elif chain of app.py:348-353: the backend the request may select
Selectable(model_type) ==
    \/ model_type = "deepface" /\ DEEPFACE_AVAILABLE
    \/ model_type = "onnx" /\ ONNX_SESSION
    \/ model_type = "keras" /\ KERAS_MODEL

\* a variant that accepts only indexes a camera can have
CameraAfterValidated(data) ==
    IF "camera_index" \in DOMAIN data /\ data.camera_index >= 0
    THEN data.camera_index
    ELSE current_camera_index

\* a variant that reads the field as data.get('camera_index', 0)
CameraAfterDefaultZero(data) ==
    IF "camera_index" \in DOMAIN data THEN data.camera_index ELSE 0

\* app.py:343-344; int() of a JSON integer is that integer
CameraAfter(data) ==
    IF "camera_index" \in DOMAIN data THEN data.camera_index
    ELSE current_camera_index

\* a variant that assigns every recognised id without the availability test
ModelAfterNoAvailability(data) ==
    IF "model_type" \in DOMAIN data /\ data.model_type \in ModelIds
    THEN data.model_type
    ELSE current_model_type

\* a variant that stores whatever string the body carries
ModelAfterUnchecked(data) ==
    IF "model_type" \in DOMAIN data THEN data.model_type
    ELSE current_model_type

\* app.py:346-355 store effect: an unselectable model_type returns before
\* any write to current_model_type
ModelAfter(data) ==
    IF "model_type" \in DOMAIN data /\ Selectable(data.model_type)
    THEN data.model_type
    ELSE current_model_type

\* a variant that builds the 200 body from the store as it was before the writes
SettingsResponseStale(data) ==
    IF "model_type" \in DOMAIN data /\ ~Selectable(data.model_type)
    THEN [status |-> 400, body |-> [error |-> "Model not available"]]
    ELSE [status |-> 200,
          body |-> [camera_index |-> current_camera_index,
                    model_type |-> current_model_type]]

\* app.py:355 and 357-360: the 400 of the else branch, or the store as it is
\* after the writes
SettingsResponse(data) ==
    IF "model_type" \in DOMAIN data /\ ~Selectable(data.model_type)
    THEN [status |-> 400, body |-> [error |-> "Model not available"]]
    ELSE [status |-> 200,
          body |-> [camera_index |-> CameraAfter(data),
                    model_type |-> ModelAfter(data)]]

update_settings ==
    /\ phase = "serving" /\ Idle
    /\ \E data \in SettingsBodies :
          /\ request' = [endpoint |-> "settings", data |-> data]
          /\ current_camera_index' = CameraAfter(data)
          /\ current_model_type' = ModelAfter(data)
          /\ response' = SettingsResponse(data)
    /\ pre' = StoreNow
    /\ results' = <<>>
    /\ calls' = <<>>
    /\ UNCHANGED <<aux, phase, backends>>

(***************************************************************************)
(* Uploads and what the detectors and models report for them               *)
(***************************************************************************)
None == [none |-> TRUE]

\* frame.shape[:2] of the decoded uploads
ImageShapes == {[w |-> 100, h |-> 100], [w |-> 200, h |-> 100]}

\* request.files of POST /predict and what cv2.imdecode makes of the bytes
Uploads ==
    { [file |-> FALSE, filename |-> "", frame |-> None],
      [file |-> TRUE, filename |-> "", frame |-> None],
      [file |-> TRUE, filename |-> "upload.png", frame |-> None] }
    \cup { [file |-> TRUE, filename |-> "upload.png", frame |-> shape] :
               shape \in ImageShapes }

Box(x, y, w, h) == [x |-> x, y |-> y, w |-> w, h |-> h]

\* raw 7-entry outputs of the keras / onnx model: a single maximum, and a tie
SamplePredictions ==
    { << Rat(1,20), Rat(0,20), Rat(1,20), Rat(14,20), Rat(2,20), Rat(1,20), Rat(1,20) >>,
      << Rat(2,5), Rat(0,5), Rat(0,5), Rat(0,5), Rat(1,5), Rat(2,5), Rat(0,5) >> }

\* what happens to one rectangle of the cascade in the loop body
CascadeOutcomes ==
    { [kind |-> "preprocess_none", predictions |-> <<>>],
      [kind |-> "run_raises", predictions |-> <<>>],
      [kind |-> "draw_raises", predictions |-> <<>>] }
    \cup { [kind |-> "ok", predictions |-> v] : v \in SamplePredictions }

\* rectangles of detectMultiScale (minSize 30x30)
CascadeBoxes == { Box(0, 0, 40, 40), Box(40, 30, 60, 60) }

CascadeFaces ==
    { [box |-> b, outcome |-> o] : b \in CascadeBoxes, o \in CascadeOutcomes }

\* the emotion names DeepFace reports in 'dominant_emotion'
DeepfaceLabels ==
    { <<"a","n","g","r","y">>, <<"d","i","s","g","u","s","t">>,
      <<"f","e","a","r">>, <<"h","a","p","p","y">>, <<"s","a","d">>,
      <<"s","u","r","p","r","i","s","e">>, <<"n","e","u","t","r","a","l">> }

\* region sizes DeepFace reports for a frame: exactly 90% and 100% of each
\* dimension of the frame
DeepfaceRegions(frame) ==
    { Box(0, 0, w, h) : w \in {(9 * frame.w) \div 10, frame.w},
                        h \in {(9 * frame.h) \div 10, frame.h} }

\* one entry of DeepFace.analyze's list; raises says that handling the entry
\* (app.py:242-269) throws.  Either the region and the failure vary under one
\* label, or the label varies on one region.
DeepfaceFaces(frame) ==
    LET small == Box(0, 0, (9 * frame.w) \div 10, (9 * frame.h) \div 10)
    IN  { [region |-> r, dominant_emotion |-> <<"h","a","p","p","y">>,
           emotion_score |-> Rat(175, 2), raises |-> x] :
               r \in DeepfaceRegions(frame), x \in BOOLEAN }
        \cup { [region |-> small, dominant_emotion |-> l,
                emotion_score |-> Rat(100, 1), raises |-> FALSE] :
                   l \in DeepfaceLabels }
        \cup { [region |-> small,
                dominant_emotion |-> <<"n","e","u","t","r","a","l">>,
                emotion_score |-> Rat(0, 1), raises |-> FALSE] }

SeqsUpTo(S, n) == UNION { [1..k -> S] : k \in 0..n }

\* outcomes of face_cascade.detectMultiScale plus the per-rectangle outcomes
CascadeDetections == SeqsUpTo(CascadeFaces, MaxFaces)

\* outcomes of DeepFace.analyze on a bitmap
DeepfaceAnalyses(frame) ==
    { [raises |-> TRUE, faces |-> <<>>] }
    \cup { [raises |-> FALSE, faces |-> fs] :
               fs \in SeqsUpTo(DeepfaceFaces(frame), MaxFaces) }

\* outcomes of DeepFace.analyze when handed None instead of a bitmap
NoneFrameAnalyses ==
    { [raises |-> TRUE, faces |-> <<>>],
      [raises |-> FALSE, faces |-> <<>>] }
    \cup { [raises |-> FALSE,
            faces |-> << [region |-> Box(0, 0, 50, 50),
                          dominant_emotion |-> <<"h","a","p","p","y">>,
                          emotion_score |-> Rat(175, 2), raises |-> FALSE] >>] }

Call(fn, arg) == [fn |-> fn, arg |-> arg]

(***************************************************************************)
(* process_frame_with_onnx / process_frame_with_keras, app.py:124-219      *)
(***************************************************************************)
\* a variant that returns the last index holding the maximum
argmax_last(v) ==
    CHOOSE i \in DOMAIN v :
        /\ \A j \in DOMAIN v : RatLeq(v[j], v[i])
        /\ \A j \in DOMAIN v : j > i => RatLess(v[j], v[i])

\* np.argmax: the first index holding the maximum
argmax(v) ==
    CHOOSE i \in DOMAIN v :
        /\ \A j \in DOMAIN v : RatLeq(v[j], v[i])
        /\ \A j \in DOMAIN v : j < i => RatLess(v[j], v[i])

\* the dict appended for one rectangle, app.py:138-140,163-167 (186-188,211-215)
RegionResult(face) ==
    LET b == face.box
        max_index == argmax(face.outcome.predictions)
    IN  [box |-> <<b.x, b.y, b.w, b.h>>,
         emotion |-> EMOTION_LABELS[max_index],
         confidence |-> face.outcome.predictions[max_index]]

\* the body of `for (x, y, w, h) in faces`: preprocessing that returns None
\* skips the rectangle, an exception inside the try is caught per rectangle
RECURSIVE CascadeLoop(_, _, _, _, _)
CascadeLoop(faces, i, acc, trace, runFn) ==
    IF i > Len(faces) THEN [raised |-> FALSE, results |-> acc, calls |-> trace]
    ELSE LET o == faces[i].outcome
             t1 == Append(trace, Call("preprocess", i))
             t2 == Append(t1, Call(runFn, i))
         IN  IF o.kind = "preprocess_none"
             THEN CascadeLoop(faces, i + 1, acc, t1, runFn)
             ELSE IF o.kind = "ok"
             THEN CascadeLoop(faces, i + 1, Append(acc, RegionResult(faces[i])), t2, runFn)
             ELSE CascadeLoop(faces, i + 1, acc, t2, runFn)

\* a variant that runs the session a second time on a rectangle whose first
\* run raised
process_frame_with_onnx_retrying(frame, faces) ==
    IF frame = None
    THEN [raised |-> TRUE, results |-> <<>>,
          calls |-> <<Call("process_frame_with_onnx", 0), Call("cv2.cvtColor", 0)>>]
    ELSE LET once == CascadeLoop(faces, 1, <<>>,
                                 <<Call("process_frame_with_onnx", 0),
                                   Call("cv2.cvtColor", 0),
                                   Call("detectMultiScale", 0)>>,
                                 "ONNX_SESSION.run")
             failed == {i \in DOMAIN faces : faces[i].outcome.kind = "run_raises"}
         IN  IF failed = {} THEN once
             ELSE [once EXCEPT
                      !.calls = @ \o <<Call("ONNX_SESSION.run",
                                            CHOOSE i \in failed : TRUE)>>]

\* cv2.cvtColor raises on None before the cascade is run
process_frame_with_onnx(frame, faces) ==
    IF frame = None
    THEN [raised |-> TRUE, results |-> <<>>,
          calls |-> <<Call("process_frame_with_onnx", 0), Call("cv2.cvtColor", 0)>>]
    ELSE CascadeLoop(faces, 1, <<>>,
                     <<Call("process_frame_with_onnx", 0),
                       Call("cv2.cvtColor", 0), Call("detectMultiScale", 0)>>,
                     "ONNX_SESSION.run")

\* a variant that classifies the whole image when the cascade finds nothing
process_frame_with_keras_whole_image(frame, faces) ==
    IF frame = None
    THEN [raised |-> TRUE, results |-> <<>>,
          calls |-> <<Call("process_frame_with_keras", 0), Call("cv2.cvtColor", 0)>>]
    ELSE IF faces = <<>>
    THEN [raised |-> FALSE,
          results |-> << [box |-> <<0, 0, frame.w, frame.h>>,
                          emotion |-> EMOTION_LABELS[5],
                          confidence |-> Rat(1, 2)] >>,
          calls |-> <<Call("process_frame_with_keras", 0),
                      Call("cv2.cvtColor", 0), Call("detectMultiScale", 0),
                      Call("preprocess", 0), Call("KERAS_MODEL.predict", 0)>>]
    ELSE CascadeLoop(faces, 1, <<>>,
                     <<Call("process_frame_with_keras", 0),
                       Call("cv2.cvtColor", 0), Call("detectMultiScale", 0)>>,
                     "KERAS_MODEL.predict")

process_frame_with_keras(frame, faces) ==
    IF frame = None
    THEN [raised |-> TRUE, results |-> <<>>,
          calls |-> <<Call("process_frame_with_keras", 0), Call("cv2.cvtColor", 0)>>]
    ELSE CascadeLoop(faces, 1, <<>>,
                     <<Call("process_frame_with_keras", 0),
                       Call("cv2.cvtColor", 0), Call("detectMultiScale", 0)>>,
                     "KERAS_MODEL.predict")

(***************************************************************************)
(* process_frame_with_deepface, app.py:221-280                             *)
(***************************************************************************)
\* a variant that compares with the full dimension, without the factor 0.9
WholeImageNoFactor(region, frame) ==
    /\ region.w > frame.w
    /\ region.h > frame.h

\* a variant that unpacks frame.shape[:2] as (frame_w, frame_h)
WholeImageSwapped(region, frame) ==
    /\ 10 * region.w > 9 * frame.h
    /\ 10 * region.h > 9 * frame.w

\* app.py:236-238, w > frame_w * 0.9 and h > frame_h * 0.9; on integers w and
\* frame_w the float comparison w > frame_w * 0.9 is 10 * w > 9 * frame_w
WholeImage(region, frame) ==
    /\ 10 * region.w > 9 * frame.w
    /\ 10 * region.h > 9 * frame.h

\* a variant that reports the 0-100 score as it comes
DeepfaceResultPercent(face) ==
    LET r == face.region
    IN  [box |-> <<r.x, r.y, r.w, r.h>>,
         emotion |-> capitalize(face.dominant_emotion),
         confidence |-> face.emotion_score]

\* the dict appended for one entry, app.py:242-248,271-275
DeepfaceResult(face) ==
    LET r == face.region
    IN  [box |-> <<r.x, r.y, r.w, r.h>>,
         emotion |-> capitalize(face.dominant_emotion),
         confidence |-> RatDiv(face.emotion_score, 100)]

\* `for result in analysis_results` inside the single try of app.py:224-278:
\* an exception (frame.shape of None at 236, or the handling of an entry)
\* leaves the loop, and the function returns what was appended so far
RECURSIVE DeepfaceLoop(_, _, _, _)
DeepfaceLoop(frame, faces, i, acc) ==
    IF i > Len(faces) THEN acc
    ELSE IF frame = None THEN acc
    ELSE IF WholeImage(faces[i].region, frame)
    THEN DeepfaceLoop(frame, faces, i + 1, acc)
    ELSE IF faces[i].raises THEN acc
    ELSE DeepfaceLoop(frame, faces, i + 1, Append(acc, DeepfaceResult(faces[i])))

process_frame_with_deepface(frame, analysis) ==
    [raised |-> FALSE,
     results |-> IF analysis.raises THEN <<>>
                 ELSE DeepfaceLoop(frame, analysis.faces, 1, <<>>),
     calls |-> <<Call("process_frame_with_deepface", 0),
                 Call("DeepFace.analyze", 0)>>]

(***************************************************************************)
(* POST /predict, app.py:362-416                                           *)
(***************************************************************************)
\* a variant that falls back to the first available backend when the store's
\* backend is not available
DispatchWithFallback ==
    IF current_model_type = "deepface" /\ DEEPFACE_AVAILABLE THEN "deepface"
    ELSE IF current_model_type = "onnx" /\ ONNX_SESSION THEN "onnx"
    ELSE IF current_model_type = "keras" /\ KERAS_MODEL THEN "keras"
    ELSE IF DEEPFACE_AVAILABLE THEN "deepface"
    ELSE IF ONNX_SESSION THEN "onnx"
    ELSE IF KERAS_MODEL THEN "keras"
    ELSE "none"

\* the branch of app.py:379-388 taken for the store's backend
Dispatch ==
    IF current_model_type = "deepface" /\ DEEPFACE_AVAILABLE THEN "deepface"
    ELSE IF current_model_type = "onnx" /\ ONNX_SESSION THEN "onnx"
    ELSE IF current_model_type = "keras" /\ KERAS_MODEL THEN "keras"
    ELSE "none"

\* a variant without the empty-filename test of app.py:371-372
ValidationErrorNoFilename(upload) ==
    IF ~upload.file THEN "No file uploaded" ELSE ""

\* app.py:366-372: the message of the 400 for a missing file part or an
\* empty filename, "" when the upload passes
ValidationError(upload) ==
    IF ~upload.file THEN "No file uploaded"
    ELSE IF upload.filename = "" THEN "Empty filename"
    ELSE ""

\* what the environment can report for this upload under this dispatch
Detections(upload) ==
    IF ValidationError(upload) # "" THEN { None }
    ELSE IF Dispatch = "deepface"
    THEN (IF upload.frame = None THEN NoneFrameAnalyses
          ELSE DeepfaceAnalyses(upload.frame))
    ELSE IF Dispatch \in {"onnx", "keras"}
    THEN (IF upload.frame = None THEN { <<>> } ELSE CascadeDetections)
    ELSE { None }

\* a variant in which the adapters need a camera index that a device can have
RunBackendOpensCamera(upload, detected) ==
    IF Dispatch = "none" \/ current_camera_index < 0
    THEN [raised |-> Dispatch # "none", results |-> <<>>, calls |-> <<>>]
    ELSE IF Dispatch = "deepface" THEN process_frame_with_deepface(upload.frame, detected)
    ELSE IF Dispatch = "onnx" THEN process_frame_with_onnx(upload.frame, detected)
    ELSE process_frame_with_keras(upload.frame, detected)

\* app.py:378-388: the adapter's return value, or no adapter at all
RunBackend(upload, detected) ==
    IF Dispatch = "deepface" THEN process_frame_with_deepface(upload.frame, detected)
    ELSE IF Dispatch = "onnx" THEN process_frame_with_onnx(upload.frame, detected)
    ELSE IF Dispatch = "keras" THEN process_frame_with_keras(upload.frame, detected)
    ELSE [raised |-> FALSE, results |-> <<>>, calls |-> <<>>]

\* a variant that reports zero faces as a 200 without an error field
ResultResponseZeroFaces200(res) ==
    IF res # <<>>
    THEN [status |-> 200,
          body |-> [success |-> TRUE,
                    prediction |-> res[1].emotion,
                    confidence |-> res[1].confidence,
                    box |-> res[1].box,
                    all_predictions |->
                        [i \in DOMAIN res |->
                            [emotion |-> res[i].emotion,
                             confidence |-> res[i].confidence]]]]
    ELSE [status |-> 200, body |-> [success |-> FALSE, faces_detected |-> 0]]

\* app.py:390-412
ResultResponse(res) ==
    IF res # <<>>
    THEN [status |-> 200,
          body |-> [success |-> TRUE,
                    prediction |-> res[1].emotion,
                    confidence |-> res[1].confidence,
                    box |-> res[1].box,
                    all_predictions |->
                        [i \in DOMAIN res |->
                            [emotion |-> res[i].emotion,
                             confidence |-> res[i].confidence]]]]
    ELSE [status |-> 400,
          body |-> [success |-> FALSE, error |-> "No face detected"]]

\* the whole handler: response, adapter results and library calls
PredictOutcome(upload, detected) ==
    IF ValidationError(upload) # ""
    THEN [response |-> [status |-> 400,
                        body |-> [error |-> ValidationError(upload)]],
          results |-> <<>>, calls |-> <<>>]
    ELSE LET decode == <<Call("cv2.imdecode", 0)>>
             run == RunBackend(upload, detected)
         IN  IF Dispatch = "none"
             THEN [response |-> [status |-> 500,
                                 body |-> [error |-> "No model available"]],
                   results |-> <<>>, calls |-> decode]
             ELSE IF run.raised
             THEN [response |-> [status |-> 500,
                                 body |-> [error |-> "Prediction failed"]],
                   results |-> <<>>, calls |-> decode \o run.calls]
             ELSE [response |-> ResultResponse(run.results),
                   results |-> run.results, calls |-> decode \o run.calls]

predict ==
    /\ phase = "serving" /\ Idle
    /\ \E upload \in Uploads :
          \E detected \in Detections(upload) :
              LET out == PredictOutcome(upload, detected)
              IN  /\ request' = [endpoint |-> "predict", upload |-> upload,
                                 detected |-> detected]
                  /\ response' = out.response
                  /\ results' = out.results
                  /\ calls' = out.calls
    /\ pre' = StoreNow
    /\ UNCHANGED <<aux, phase, backends, store>>

(***************************************************************************)
(* The response leaves the server, app.py:446 (app.run)                    *)
(***************************************************************************)
SendResponse ==
    /\ phase = "serving"
    /\ ~Idle
    /\ request' = NoRequest
    /\ pre' = NoStore
    /\ results' = <<>>
    /\ calls' = <<>>
    /\ response' = NoResponse
    /\ UNCHANGED <<aux, phase, backends, store>>

Next ==
    \/ StartAsScript
    \/ StartAsImport
    \/ health
    \/ get_cameras
    \/ get_models
    \/ update_settings
    \/ predict
    \/ SendResponse

Spec == Init /\ [][Next]_vars

(***************************************************************************)
(* The region preprocessors, app.py:83-105                                 *)
(*                                                                         *)
(* An array is [shape, lo, hi, scale]: every element lies between lo/scale *)
(* and hi/scale.  A uint8 image has scale 1 and 0 <= lo <= hi <= 255.      *)
(***************************************************************************)
Array(shape, lo, hi) == [shape |-> shape, lo |-> lo, hi |-> hi, scale |-> 1]

RECURSIVE Size(_)
Size(shape) == IF shape = <<>> THEN 1 ELSE Head(shape) * Size(Tail(shape))

\* heights and widths of the regions handed to the preprocessors
RegionSides == {1, 30, 48, 100}

\* darkest and brightest pixel of a region
PixelRanges ==
    { <<lo, hi>> \in {0, 128, 255} \X {0, 128, 255} : lo <= hi }

\* gray_frame[y:y+h, x:x+w] is a 2-D uint8 array; a 3-channel region stands
\* for input that was not converted to grayscale
FaceImages ==
    { Array(<<h, w>>, r[1], r[2]) :
          h \in RegionSides, w \in RegionSides, r \in PixelRanges }
    \cup { Array(<<h, w, 3>>, r[1], r[2]) :
               h \in RegionSides, w \in RegionSides, r \in PixelRanges }

\* cv2.resize(img, (48, 48)): rows and columns become 48, channels stay,
\* INTER_LINEAR keeps every value between the darkest and brightest input
cv2_resize(a, width, height) ==
    [a EXCEPT !.shape = <<height, width>> \o SubSeq(a.shape, 3, Len(a.shape))]

\* Image.fromarray(img).resize((48, 48)) and np.array: the default filter
\* can overshoot, and the 8-bit image saturates at 0 and 255
pil_resize(a, width, height) ==
    [a EXCEPT !.shape = <<height, width>> \o SubSeq(a.shape, 3, Len(a.shape)),
              !.lo = IF a.lo = a.hi THEN a.lo ELSE 0,
              !.hi = IF a.lo = a.hi THEN a.hi ELSE 255]

\* a / 255.0
divide(a, k) == [a EXCEPT !.scale = @ * k]

\* np.expand_dims(a, axis=0) and np.expand_dims(a, axis=-1)
expand_dims_first(a) == [a EXCEPT !.shape = <<1>> \o @]
expand_dims_last(a) == [a EXCEPT !.shape = @ \o <<1>>]

\* preprocess_face_for_onnx, app.py:83-91: np.reshape raises when the
\* element count is not 1*48*48*1, and the except returns None
preprocess_face_for_onnx(img) ==
    LET face_resized == cv2_resize(img, 48, 48)
        face_normalized == divide(face_resized, 255)
    IN  IF Size(face_normalized.shape) = Size(<<1, 48, 48, 1>>)
        THEN [face_normalized EXCEPT !.shape = <<1, 48, 48, 1>>]
        ELSE None

\* a variant without the division by 255
preprocess_face_for_keras_unscaled(img) ==
    expand_dims_last(expand_dims_first(pil_resize(img, 48, 48)))

\* preprocess_face_for_keras, app.py:93-105
preprocess_face_for_keras(img) ==
    LET img_pil == pil_resize(img, 48, 48)
        img_array == divide(img_pil, 255)
    IN  expand_dims_last(expand_dims_first(img_array))

InitPreprocess ==
    /\ phase = "loaded"
    /\ DEEPFACE_AVAILABLE = FALSE
    /\ ONNX_SESSION = FALSE
    /\ KERAS_MODEL = FALSE
    /\ current_camera_index = 0
    /\ current_model_type = "deepface"
    /\ request = NoRequest
    /\ pre = NoStore
    /\ results = <<>>
    /\ calls = <<>>
    /\ response = NoResponse
    /\ threads = <<>>
    /\ face_img \in FaceImages
    /\ tensor = NoArray
    /\ first_run = NoRun

PreprocessForOnnx ==
    /\ tensor' = [by |-> "onnx", out |-> preprocess_face_for_onnx(face_img)]
    /\ UNCHANGED <<phase, backends, store, request, pre, results, calls,
                   response, threads, face_img, first_run>>

PreprocessForKeras ==
    /\ tensor' = [by |-> "keras", out |-> preprocess_face_for_keras(face_img)]
    /\ UNCHANGED <<phase, backends, store, request, pre, results, calls,
                   response, threads, face_img, first_run>>

NextPreprocess ==
    \/ PreprocessForOnnx
    \/ PreprocessForKeras

SpecPreprocess == InitPreprocess /\ [][NextPreprocess]_vars

(***************************************************************************)
(* Requests served by parallel worker threads (app.run, app.py:446, serves *)
(* each request on its own thread).  A step of a thread holds at most one  *)
(* access to current_camera_index or current_model_type, the only shared   *)
(* mutable state; nothing in app.py locks them.                            *)
(***************************************************************************)
Workers == {"w1", "w2"}

\* the workers that are handed POST /predict requests
PredictWorkers == {"w1"}

IdleThread == [op |-> "idle", pc |-> "idle"]

\* settings bodies of the concurrent requests
ThreadedBodies ==
    {EmptyBody}
    \cup {[camera_index |-> c] : c \in {0, 1}}
    \cup {[model_type |-> m] : m \in ModelIds}
    \cup {[camera_index |-> c, model_type |-> m] : c \in {0, 1}, m \in ModelIds}

\* uploads of the concurrent requests
ThreadedUploads ==
    { [file |-> FALSE, filename |-> "", frame |-> None],
      [file |-> TRUE, filename |-> "upload.png", frame |-> None],
      [file |-> TRUE, filename |-> "upload.png", frame |-> [w |-> 100, h |-> 100]] }

\* what the detectors and models report to a concurrent request
ThreadedDetections(branch, upload) ==
    IF branch = "deepface"
    THEN IF upload.frame = None THEN NoneFrameAnalyses
         ELSE { [raises |-> TRUE, faces |-> <<>>],
                [raises |-> FALSE,
                 faces |-> << [region |-> Box(0, 0, 50, 50),
                               dominant_emotion |-> <<"h","a","p","p","y">>,
                               emotion_score |-> Rat(175, 2),
                               raises |-> FALSE] >>] }
    ELSE IF upload.frame = None THEN { <<>> }
         ELSE { <<>>,
                << [box |-> Box(0, 0, 40, 40),
                    outcome |-> [kind |-> "run_raises", predictions |-> <<>>]] >> }

InitThreaded ==
    /\ phase = "loaded"
    /\ DEEPFACE_AVAILABLE \in BOOLEAN
    /\ ONNX_SESSION \in BOOLEAN
    /\ KERAS_MODEL \in BOOLEAN
    /\ current_camera_index = 0
    /\ current_model_type = "deepface"
    /\ request = NoRequest
    /\ pre = NoStore
    /\ results = <<>>
    /\ calls = <<>>
    /\ response = NoResponse
    /\ threads = [w \in Workers |-> IdleThread]
    /\ face_img = NoArray
    /\ tensor = NoArray
    /\ first_run = NoRun

sequential == <<request, pre, results, calls, response, face_img, tensor,
                first_run>>

\* app.py:341, data = request.json
SettingsReceive(w) ==
    /\ phase = "serving"
    /\ threads[w].op = "idle"
    /\ \E data \in ThreadedBodies :
          threads' = [threads EXCEPT
                         ![w] = [op |-> "settings", pc |-> "camera", data |-> data]]
    /\ UNCHANGED <<phase, backends, store, sequential>>

\* history kept for the requests that have finished their writes and are
\* building their response (app.py:357-360): `held` collects every pair the
\* store holds from the request's last write on; here another thread w has
\* just put the store into `pair`
Observe(ts, w, pair) ==
    [x \in DOMAIN ts |->
        IF /\ x # w
           /\ ts[x].op = "settings"
           /\ ts[x].pc \in {"read_camera", "read_model"}
        THEN [ts[x] EXCEPT !.held = @ \cup {pair}]
        ELSE ts[x]]

\* app.py:343-344
SettingsCamera(w) ==
    /\ threads[w].op = "settings" /\ threads[w].pc = "camera"
    /\ current_camera_index' = CameraAfter(threads[w].data)
    /\ threads' = Observe([threads EXCEPT ![w].pc = "model"], w,
                          [camera_index |-> CameraAfter(threads[w].data),
                           model_type |-> current_model_type])
    /\ UNCHANGED <<phase, backends, current_model_type, sequential>>

\* app.py:346-355
SettingsModel(w) ==
    /\ threads[w].op = "settings" /\ threads[w].pc = "model"
    /\ current_model_type' = ModelAfter(threads[w].data)
    /\ threads' =
          IF /\ "model_type" \in DOMAIN threads[w].data
             /\ ~Selectable(threads[w].data.model_type)
          THEN [threads EXCEPT
                   ![w] = [op |-> "settings", pc |-> "done",
                           data |-> threads[w].data,
                           response |-> [status |-> 400,
                                         body |-> [error |-> "Model not available"]]]]
          ELSE Observe([threads EXCEPT
                           ![w] = [op |-> "settings", pc |-> "read_camera",
                                   data |-> threads[w].data,
                                   held |-> {[camera_index |-> current_camera_index,
                                              model_type |-> ModelAfter(threads[w].data)]}]],
                       w,
                       [camera_index |-> current_camera_index,
                        model_type |-> ModelAfter(threads[w].data)])
    /\ UNCHANGED <<phase, backends, current_camera_index, sequential>>

\* app.py:358, the value of 'camera_index' in the returned dict
SettingsReadCamera(w) ==
    /\ threads[w].op = "settings" /\ threads[w].pc = "read_camera"
    /\ threads' = [threads EXCEPT
                      ![w] = [op |-> "settings", pc |-> "read_model",
                              data |-> threads[w].data,
                              held |-> threads[w].held,
                              camera_index |-> current_camera_index]]
    /\ UNCHANGED <<phase, backends, store, sequential>>

\* app.py:359-360, the value of 'model_type' and the return
SettingsReadModel(w) ==
    /\ threads[w].op = "settings" /\ threads[w].pc = "read_model"
    /\ threads' = [threads EXCEPT
                      ![w] = [op |-> "settings", pc |-> "done",
                              data |-> threads[w].data,
                              held |-> threads[w].held,
                              response |->
                                  [status |-> 200,
                                   body |-> [camera_index |-> threads[w].camera_index,
                                             model_type |-> current_model_type]]]]
    /\ UNCHANGED <<phase, backends, store, sequential>>

\* app.py:366-376
PredictReceive(w) ==
    /\ phase = "serving"
    /\ w \in PredictWorkers
    /\ threads[w].op = "idle"
    /\ \E upload \in ThreadedUploads :
          threads' =
              IF ValidationError(upload) # ""
              THEN [threads EXCEPT
                       ![w] = [op |-> "predict", pc |-> "done", upload |-> upload,
                               branch |-> "none",
                               response |-> [status |-> 400,
                                             body |-> [error |-> ValidationError(upload)]]]]
              ELSE [threads EXCEPT
                       ![w] = [op |-> "predict", pc |-> "test_deepface",
                               upload |-> upload]]
    /\ UNCHANGED <<phase, backends, store, sequential>>

\* the thread takes the branch of a backend
TakeBranch(w, branch) ==
    [threads EXCEPT ![w] = [op |-> "predict", pc |-> "run",
                            upload |-> threads[w].upload, branch |-> branch]]

\* app.py:379
PredictTestDeepface(w) ==
    /\ threads[w].op = "predict" /\ threads[w].pc = "test_deepface"
    /\ threads' = IF current_model_type = "deepface" /\ DEEPFACE_AVAILABLE
                  THEN TakeBranch(w, "deepface")
                  ELSE [threads EXCEPT ![w].pc = "test_onnx"]
    /\ UNCHANGED <<phase, backends, store, sequential>>

\* app.py:381
PredictTestOnnx(w) ==
    /\ threads[w].op = "predict" /\ threads[w].pc = "test_onnx"
    /\ threads' = IF current_model_type = "onnx" /\ ONNX_SESSION
                  THEN TakeBranch(w, "onnx")
                  ELSE [threads EXCEPT ![w].pc = "test_keras"]
    /\ UNCHANGED <<phase, backends, store, sequential>>

\* app.py:384-388
PredictTestKeras(w) ==
    /\ threads[w].op = "predict" /\ threads[w].pc = "test_keras"
    /\ threads' = IF current_model_type = "keras" /\ KERAS_MODEL
                  THEN TakeBranch(w, "keras")
                  ELSE [threads EXCEPT
                           ![w] = [op |-> "predict", pc |-> "done",
                                   upload |-> threads[w].upload,
                                   branch |-> "none",
                                   response |-> [status |-> 500,
                                                 body |-> [error |-> "No model available"]]]]
    /\ UNCHANGED <<phase, backends, store, sequential>>

\* the adapter of the branch taken, app.py:380, 383, 386
RunBranch(branch, frame, detected) ==
    IF branch = "deepface" THEN process_frame_with_deepface(frame, detected)
    ELSE IF branch = "onnx" THEN process_frame_with_onnx(frame, detected)
    ELSE process_frame_with_keras(frame, detected)

\* app.py:380-416 after the branch is taken
PredictRun(w) ==
    /\ threads[w].op = "predict" /\ threads[w].pc = "run"
    /\ \E detected \in ThreadedDetections(threads[w].branch, threads[w].upload) :
          LET run == RunBranch(threads[w].branch, threads[w].upload.frame, detected)
          IN  threads' =
                  [threads EXCEPT
                      ![w] = [op |-> "predict", pc |-> "done",
                              upload |-> threads[w].upload,
                              branch |-> threads[w].branch,
                              response |->
                                  IF run.raised
                                  THEN [status |-> 500,
                                        body |-> [error |-> "Prediction failed"]]
                                  ELSE ResultResponse(run.results)]]
    /\ UNCHANGED <<phase, backends, store, sequential>>

\* the response leaves the thread, which takes the next request
ThreadReturn(w) ==
    /\ threads[w].pc = "done"
    /\ threads' = [threads EXCEPT ![w] = IdleThread]
    /\ UNCHANGED <<phase, backends, store, sequential>>

NextThreaded ==
    \/ StartAsScript
    \/ StartAsImport
    \/ \E w \in Workers : SettingsReceive(w)
    \/ \E w \in Workers : SettingsCamera(w)
    \/ \E w \in Workers : SettingsModel(w)
    \/ \E w \in Workers : SettingsReadCamera(w)
    \/ \E w \in Workers : SettingsReadModel(w)
    \/ \E w \in Workers : PredictReceive(w)
    \/ \E w \in Workers : PredictTestDeepface(w)
    \/ \E w \in Workers : PredictTestOnnx(w)
    \/ \E w \in Workers : PredictTestKeras(w)
    \/ \E w \in Workers : PredictRun(w)
    \/ \E w \in Workers : ThreadReturn(w)

SpecThreaded == InitThreaded /\ [][NextThreaded]_vars

(***************************************************************************)
(* One POST /predict handled twice, the second time after settings         *)
(* requests have moved the store: predict (app.py:362-416) is run on the   *)
(* same upload with the same detector and model outputs.                   *)
(***************************************************************************)
\* what the detectors and models report for the repeated upload
TwinDetections(upload) ==
    IF ValidationError(upload) # "" \/ Dispatch = "none" THEN { None }
    ELSE ThreadedDetections(Dispatch, upload)

InitTwin ==
    /\ phase = "loaded"
    /\ DEEPFACE_AVAILABLE \in BOOLEAN
    /\ ONNX_SESSION \in BOOLEAN
    /\ KERAS_MODEL \in BOOLEAN
    /\ current_camera_index = 0
    /\ current_model_type = "deepface"
    /\ request = NoRequest
    /\ pre = NoStore
    /\ results = <<>>
    /\ calls = <<>>
    /\ response = NoResponse
    /\ threads = <<>>
    /\ face_img = NoArray
    /\ tensor = NoArray
    /\ first_run = NoRun

\* the first handling of the upload
PredictFirst ==
    /\ phase = "serving" /\ Idle
    /\ first_run = NoRun
    /\ \E upload \in ThreadedUploads :
          \E detected \in TwinDetections(upload) :
              LET out == PredictOutcome(upload, detected)
              IN  /\ request' = [endpoint |-> "predict", upload |-> upload,
                                 detected |-> detected]
                  /\ response' = out.response
                  /\ results' = out.results
                  /\ calls' = out.calls
                  /\ first_run' = [runs |-> 1, store |-> StoreNow,
                                   upload |-> upload, detected |-> detected,
                                   response |-> out.response]
    /\ pre' = StoreNow
    /\ UNCHANGED <<phase, backends, store, threads, face_img, tensor>>

\* the same upload handled again while the store names the same backend
PredictSecond ==
    /\ phase = "serving" /\ Idle
    /\ first_run.runs = 1
    /\ current_model_type = first_run.store.model_type
    /\ LET out == PredictOutcome(first_run.upload, first_run.detected)
       IN  /\ request' = [endpoint |-> "predict", upload |-> first_run.upload,
                          detected |-> first_run.detected]
           /\ response' = out.response
           /\ results' = out.results
           /\ calls' = out.calls
           /\ first_run' = [runs |-> 2, store |-> first_run.store,
                            upload |-> first_run.upload,
                            detected |-> first_run.detected,
                            response |-> first_run.response,
                            second_store |-> StoreNow,
                            second_response |-> out.response]
    /\ pre' = StoreNow
    /\ UNCHANGED <<phase, backends, store, threads, face_img, tensor>>

NextTwin ==
    \/ StartAsScript
    \/ StartAsImport
    \/ update_settings
    \/ PredictFirst
    \/ PredictSecond
    \/ SendResponse

SpecTwin == InitTwin /\ [][NextTwin]_vars

(***************************************************************************)
(* Properties                                                              *)
(***************************************************************************)

\* C1: a POST /api/settings whose model_type is unrecognised or names an
\* unavailable backend answers 400 and leaves the whole store, camera index
\* and backend, as it was before the request, whatever else the body carries.
C1_RejectedSettingsLeaveStore ==
    (/\ request.endpoint = "settings"
     /\ "model_type" \in DOMAIN request.data
     /\ ~Selectable(request.data.model_type))
    => /\ response.status = 400
       /\ current_model_type = pre.model_type
       /\ current_camera_index = pre.camera_index

\* C2: a POST /api/settings whose model_type is unrecognised or unavailable
\* answers 400 with an error field and does not change current_model_type;
\* handing over the response does not change it either, and GET /api/models
\* reports as `current` the value current_model_type has when it is called.
C2_InvalidModelRejected ==
    [][ /\ (/\ Idle
            /\ request'.endpoint = "settings"
            /\ "model_type" \in DOMAIN request'.data
            /\ ~Selectable(request'.data.model_type))
           => /\ response'.status = 400
              /\ "error" \in DOMAIN response'.body
              /\ current_model_type' = current_model_type
        /\ (~Idle /\ Idle') => current_model_type' = current_model_type
        /\ (Idle /\ request'.endpoint = "models")
           => response'.body.current = current_model_type ]_vars

\* C2 witness: a request for the onnx backend, which did not load, rejected
C2_Witness ==
    /\ request.endpoint = "settings"
    /\ "model_type" \in DOMAIN request.data
    /\ request.data.model_type = "onnx"
    /\ ~ONNX_SESSION
    /\ pre.model_type = "keras"
    /\ response.status = 400

\* C3: POST /predict without a file part, or with an empty filename, answers
\* 400 with an error field in every store state and for every availability,
\* and calls neither a backend nor a face detector.
C3_MissingFileIs400 ==
    (/\ request.endpoint = "predict"
     /\ (~request.upload.file \/ request.upload.filename = ""))
    => /\ response.status = 400
       /\ "error" \in DOMAIN response.body
       /\ \A i \in DOMAIN calls :
             calls[i].fn \notin {"DeepFace.analyze", "detectMultiScale",
                                 "ONNX_SESSION.run", "KERAS_MODEL.predict"}

\* C3 witness: an empty filename rejected while no backend is available
C3_Witness ==
    /\ request.endpoint = "predict"
    /\ request.upload.file
    /\ request.upload.filename = ""
    /\ ~DEEPFACE_AVAILABLE /\ ~ONNX_SESSION /\ ~KERAS_MODEL
    /\ response.status = 400
    /\ response.body.error = "Empty filename"

\* C4: POST /predict with a file that does not decode to a bitmap answers 400
\* with an error message whichever backend is active, and the cascade face
\* locator is not run on the missing bitmap.
C4_UndecodableIs400 ==
    (/\ request.endpoint = "predict"
     /\ request.upload.file
     /\ request.upload.filename # ""
     /\ request.upload.frame = None
     /\ Dispatch # "none")
    => /\ response.status = 400
       /\ "error" \in DOMAIN response.body
       /\ \A i \in DOMAIN calls : calls[i].fn # "detectMultiScale"

\* C5: in every 200 response of POST /predict, all_predictions has exactly 7
\* entries, one for each of the 7 emotion labels, in non-increasing order of
\* confidence.
C5_AllPredictionsRanked ==
    (request.endpoint = "predict" /\ response.status = 200)
    => LET ap == response.body.all_predictions
       IN  /\ Len(ap) = 7
           /\ {ap[i].emotion : i \in DOMAIN ap}
                 = {EMOTION_LABELS[k] : k \in DOMAIN EMOTION_LABELS}
           /\ \A i \in DOMAIN ap : \A j \in DOMAIN ap :
                 i < j => RatLeq(ap[j].confidence, ap[i].confidence)

\* C6: in every 200 response of POST /predict, prediction is one of the 7
\* canonical labels and confidence lies in [0,1]; under the deepface backend
\* the response reports a detected entry's lower-case label in its canonical
\* capitalised form and that entry's 0-100 score divided by 100.
C6_CanonicalLabelUnitConfidence ==
    (request.endpoint = "predict" /\ response.status = 200)
    => LET b == response.body
       IN  /\ b.prediction \in {EMOTION_LABELS[k] : k \in DOMAIN EMOTION_LABELS}
           /\ 0 <= b.confidence.n
           /\ b.confidence.n <= b.confidence.d
           /\ Dispatch = "deepface"
              => \E i \in DOMAIN request.detected.faces :
                    LET f == request.detected.faces[i]
                    IN  /\ b.box = <<f.region.x, f.region.y, f.region.w, f.region.h>>
                        /\ [k \in DOMAIN b.prediction |-> lower(b.prediction[k])]
                              = f.dominant_emotion
                        /\ 100 * b.confidence.n * f.emotion_score.d
                              = f.emotion_score.n * b.confidence.d

\* C6 witness: deepface reports happy at 87.5 and the response says Happy, 7/8
C6_Witness ==
    /\ request.endpoint = "predict"
    /\ response.status = 200
    /\ Dispatch = "deepface"
    /\ response.body.prediction = <<"H","a","p","p","y">>
    /\ RatEq(response.body.confidence, Rat(7, 8))

\* C7 as stated: the deepface adapter returns no region whose width exceeds
\* 90% of the image width or whose height exceeds 90% of the image height.
C7_NoRegionOver90InEitherDimension ==
    (/\ request.endpoint = "predict"
     /\ Dispatch = "deepface"
     /\ request.upload.frame # None)
    => \A i \in DOMAIN results :
          ~ \/ 10 * results[i].box[3] > 9 * request.upload.frame.w
            \/ 10 * results[i].box[4] > 9 * request.upload.frame.h

\* C7 amended: the deepface adapter returns no region whose width exceeds 90%
\* of the image width and whose height also exceeds 90% of the image height.
C7_NoRegionOver90InBothDimensions ==
    (/\ request.endpoint = "predict"
     /\ Dispatch = "deepface"
     /\ request.upload.frame # None)
    => \A i \in DOMAIN results :
          ~ /\ 10 * results[i].box[3] > 9 * request.upload.frame.w
            /\ 10 * results[i].box[4] > 9 * request.upload.frame.h

\* C7 witness: DeepFace reports a region over 90% in both dimensions next to
\* a smaller one, and only the smaller one is returned
C7_Witness ==
    /\ request.endpoint = "predict"
    /\ Dispatch = "deepface"
    /\ request.upload.frame # None
    /\ ~request.detected.raises
    /\ Len(request.detected.faces) = 2
    /\ 10 * request.detected.faces[1].region.w > 9 * request.upload.frame.w
    /\ 10 * request.detected.faces[1].region.h > 9 * request.upload.frame.h
    /\ Len(results) = 1
    /\ results[1].box[3] = request.detected.faces[2].region.w
    /\ results[1].box[4] = request.detected.faces[2].region.h

\* C8: when DeepFace reports the entire image as the single face, the adapter
\* returns no result and POST /predict answers 'No face detected', not 200.
C8_WholeImageSuppressed ==
    (/\ request.endpoint = "predict"
     /\ Dispatch = "deepface"
     /\ request.upload.frame # None
     /\ ~request.detected.raises
     /\ Len(request.detected.faces) = 1
     /\ request.detected.faces[1].region.w = request.upload.frame.w
     /\ request.detected.faces[1].region.h = request.upload.frame.h)
    => /\ results = <<>>
       /\ response.status = 400
       /\ response.body.error = "No face detected"

\* C8 witness: a 200x100 image reported whole as the one face, answered 400
C8_Witness ==
    /\ request.endpoint = "predict"
    /\ Dispatch = "deepface"
    /\ request.upload.frame = [w |-> 200, h |-> 100]
    /\ ~request.detected.raises
    /\ Len(request.detected.faces) = 1
    /\ request.detected.faces[1].region.w = 200
    /\ request.detected.faces[1].region.h = 100
    /\ ~request.detected.faces[1].raises
    /\ response.status = 400

\* C9: for each backend, a region whose processing fails is the only one
\* omitted: every region that is processed without failure (and, for
\* deepface, is not a whole-image detection) appears in the results, whether
\* it comes before or after a failing one.
C9_OnlyFailingRegionOmitted ==
    /\ (/\ request.endpoint = "predict"
        /\ Dispatch \in {"onnx", "keras"}
        /\ request.upload.frame # None)
       => Len(results) =
             Cardinality({i \in DOMAIN request.detected :
                             request.detected[i].outcome.kind = "ok"})
    /\ (/\ request.endpoint = "predict"
        /\ Dispatch = "deepface"
        /\ request.upload.frame # None
        /\ ~request.detected.raises)
       => Len(results) =
             Cardinality({i \in DOMAIN request.detected.faces :
                LET f == request.detected.faces[i]
                IN  /\ ~f.raises
                    /\ ~ /\ 10 * f.region.w > 9 * request.upload.frame.w
                         /\ 10 * f.region.h > 9 * request.upload.frame.h})

\* C10: when at least one face region is detected and inference fails for
\* every detected region, POST /predict answers 500; when inference succeeds
\* for at least one region it answers 200.
C10_AllFailuresEscalateTo500 ==
    /\ (/\ request.endpoint = "predict"
        /\ Dispatch \in {"onnx", "keras"}
        /\ request.upload.frame # None)
       => /\ (/\ Len(request.detected) >= 1
              /\ \A i \in DOMAIN request.detected :
                    request.detected[i].outcome.kind = "run_raises")
             => response.status = 500
          /\ (\E i \in DOMAIN request.detected :
                    request.detected[i].outcome.kind = "ok")
             => response.status = 200
    /\ (/\ request.endpoint = "predict"
        /\ Dispatch = "deepface"
        /\ request.upload.frame # None
        /\ ~request.detected.raises)
       => LET fs == request.detected.faces
              whole(f) == /\ 10 * f.region.w > 9 * request.upload.frame.w
                          /\ 10 * f.region.h > 9 * request.upload.frame.h
          IN  /\ (/\ Len(fs) >= 1
                  /\ \A i \in DOMAIN fs : ~whole(fs[i]) /\ fs[i].raises)
                 => response.status = 500
              /\ (\E i \in DOMAIN fs : ~whole(fs[i]) /\ ~fs[i].raises)
                 => response.status = 200

\* C12: whenever at least one backend is available, the backend the store
\* names when serving begins is the first available one in the order
\* deepface, onnx, keras, whether the server is run as a script or imported.
C12_StartsOnFirstAvailable ==
    [][ (/\ phase = "loaded"
         /\ phase' = "serving"
         /\ (DEEPFACE_AVAILABLE \/ ONNX_SESSION \/ KERAS_MODEL))
        => current_model_type' =
              IF DEEPFACE_AVAILABLE THEN "deepface"
              ELSE IF ONNX_SESSION THEN "onnx"
              ELSE "keras" ]_vars

\* C13: when none of the three backends loaded, the server never reaches the
\* state of serving requests.
C13_NoServingWithoutBackend ==
    phase = "serving" => (DEEPFACE_AVAILABLE \/ ONNX_SESSION \/ KERAS_MODEL)

\* C14: POST /api/settings with an integer camera_index and no model_type
\* answers 200 and stores that value, whatever the integer, without calling
\* the camera enumerator.
C14_CameraIndexAcceptedUnconditionally ==
    (/\ request.endpoint = "settings"
     /\ "camera_index" \in DOMAIN request.data
     /\ "model_type" \notin DOMAIN request.data)
    => /\ response.status = 200
       /\ current_camera_index = request.data.camera_index
       /\ \A i \in DOMAIN calls : calls[i].fn # "enumerate_cameras"

\* C14 witness: the index -1, which no camera has, accepted and stored
C14_Witness ==
    /\ request.endpoint = "settings"
    /\ "model_type" \notin DOMAIN request.data
    /\ "camera_index" \in DOMAIN request.data
    /\ request.data.camera_index = -1
    /\ pre.camera_index = 0
    /\ response.status = 200
    /\ current_camera_index = -1

\* C15: with one settings request at a time, a POST /api/settings carrying
\* the id of an available backend answers 200, stores that id, and returns
\* model_type equal to the id and camera_index equal to the stored index
\* after the update.
C15_AvailableBackendSelected ==
    (/\ request.endpoint = "settings"
     /\ "model_type" \in DOMAIN request.data
     /\ Selectable(request.data.model_type))
    => /\ response.status = 200
       /\ current_model_type = request.data.model_type
       /\ response.body.model_type = request.data.model_type
       /\ response.body.camera_index = current_camera_index

\* C15 witness: a switch from deepface to keras that also moves the camera
C15_Witness ==
    /\ request.endpoint = "settings"
    /\ "model_type" \in DOMAIN request.data
    /\ "camera_index" \in DOMAIN request.data
    /\ request.data.model_type = "keras"
    /\ request.data.camera_index = 1
    /\ KERAS_MODEL
    /\ pre = [camera_index |-> 0, model_type |-> "deepface"]
    /\ response.status = 200

\* C16: a settings body without model_type leaves current_model_type as it
\* was, a body without camera_index leaves current_camera_index as it was,
\* and the empty object changes nothing and answers 200 with the store.
C16_PartialUpdate ==
    request.endpoint = "settings"
    => /\ "model_type" \notin DOMAIN request.data
          => current_model_type = pre.model_type
       /\ "camera_index" \notin DOMAIN request.data
          => current_camera_index = pre.camera_index
       /\ request.data = EmptyBody
          => /\ response.status = 200
             /\ response.body = pre
             /\ StoreNow = pre

\* C16 witness: the empty object sent while the store holds camera 1 and onnx
C16_Witness ==
    /\ request.endpoint = "settings"
    /\ request.data = EmptyBody
    /\ pre = [camera_index |-> 1, model_type |-> "onnx"]
    /\ response.status = 200

\* C17: the face POST /predict reports is a rectangle of maximum area among
\* the rectangles of the result list, the first of them in detection order.
C17_LargestFaceReported ==
    (request.endpoint = "predict" /\ response.status = 200)
    => \E i \in DOMAIN results :
          /\ response.body.box = results[i].box
          /\ \A j \in DOMAIN results :
                /\ results[j].box[3] * results[j].box[4]
                      <= results[i].box[3] * results[i].box[4]
                /\ j < i => results[j].box[3] * results[j].box[4]
                               < results[i].box[3] * results[i].box[4]

\* C18: GET /api/models returns exactly three entries, the ids deepface, onnx
\* and keras once each whatever their availability, and `current` is
\* current_model_type.
C18_ThreeFixedModels ==
    request.endpoint = "models"
    => LET models == response.body.models
       IN  /\ Len(models) = 3
           /\ \A id \in ModelIds :
                 Cardinality({i \in DOMAIN models : models[i].id = id}) = 1
           /\ response.body.current = current_model_type

\* C18 witness: the list asked for while no backend is available
C18_Witness ==
    /\ request.endpoint = "models"
    /\ ~DEEPFACE_AVAILABLE /\ ~ONNX_SESSION /\ ~KERAS_MODEL
    /\ response.status = 200
    /\ Len(response.body.models) = 3

\* C19: every POST /predict ends with one response of status 200, 400 or 500;
\* a 200 body has success = TRUE, a 400 or 500 body has an error field, and
\* the server keeps serving.
C19_PredictAlwaysAnswers ==
    request.endpoint = "predict"
    => /\ response.status \in {200, 400, 500}
       /\ response.status = 200 => response.body.success = TRUE
       /\ response.status \in {400, 500} => "error" \in DOMAIN response.body
       /\ phase = "serving"

\* C19 witness: an exception inside the adapter answered with a 500
C19_Witness ==
    /\ request.endpoint = "predict"
    /\ response.status = 500
    /\ response.body.error = "Prediction failed"
    /\ phase = "serving"

\* C20: for every grayscale face region of positive width and height with
\* pixels in [0,255], both preprocessors return a tensor of shape
\* (1, 48, 48, 1) whose values all lie in [0,1], whatever the pixels are.
C20_PreprocessShapeAndRange ==
    (tensor # NoArray /\ Len(face_img.shape) = 2)
    => /\ tensor.out # None
       /\ tensor.out.shape = <<1, 48, 48, 1>>
       /\ 0 <= tensor.out.lo
       /\ tensor.out.lo <= tensor.out.hi
       /\ tensor.out.hi <= tensor.out.scale

\* C20 witness: a 30x100 region spanning black to white through the keras
\* preprocessor
C20_Witness ==
    /\ tensor # NoArray
    /\ tensor.by = "keras"
    /\ face_img = Array(<<30, 100>>, 0, 255)
    /\ tensor.out.shape = <<1, 48, 48, 1>>
    /\ tensor.out.hi = tensor.out.scale

\* C11: a POST /predict that runs concurrently with settings requests
\* switching between available backends dispatches to one of them: while all
\* three backends are available, no prediction request is answered with the
\* 500 'No model available'.
C11_PredictNeverFallsThrough ==
    (DEEPFACE_AVAILABLE /\ ONNX_SESSION /\ KERAS_MODEL)
    => \A w \in DOMAIN threads :
          (threads[w].op = "predict" /\ threads[w].pc = "done")
          => threads[w].response
                # [status |-> 500, body |-> [error |-> "No model available"]]

\* C21: once the server is serving, a step that handles GET /health,
\* GET /api/models, GET /api/cameras or POST /predict, whatever its outcome,
\* leaves current_model_type and current_camera_index as they were; only
\* POST /api/settings writes them.
C21_OnlySettingsWritesStore ==
    [][ (/\ phase = "serving"
         /\ request'.endpoint \in {"health", "models", "cameras", "predict"})
        => /\ current_model_type' = current_model_type
           /\ current_camera_index' = current_camera_index ]_vars

\* C21 witness: GET /api/cameras that recommends camera 1 answered while the
\* store, moved by an earlier settings request, still holds camera -1
C21_Witness ==
    /\ request.endpoint = "cameras"
    /\ response.body.recommended = 1
    /\ pre.camera_index = -1
    /\ current_camera_index = -1

\* C22: no step changes which backends are available, and in every state the
\* availability flags in a GET /health response and the `available` fields in
\* a GET /api/models response are, backend by backend, the availability that
\* the other endpoint reports in that state.
C22_AvailabilityFixedAndConsistent ==
    [][ /\ DEEPFACE_AVAILABLE' = DEEPFACE_AVAILABLE
        /\ ONNX_SESSION' = ONNX_SESSION
        /\ KERAS_MODEL' = KERAS_MODEL
        /\ request'.endpoint = "health"
           => \A i \in DOMAIN ModelsList :
                 ModelsList[i].available =
                    (IF ModelsList[i].id = "deepface"
                     THEN response'.body.deepface_available
                     ELSE IF ModelsList[i].id = "onnx"
                     THEN response'.body.onnx_available
                     ELSE response'.body.keras_available)
        /\ request'.endpoint = "models"
           => \A i \in DOMAIN response'.body.models :
                 response'.body.models[i].available =
                    (IF response'.body.models[i].id = "deepface"
                     THEN DEEPFACE_AVAILABLE
                     ELSE IF response'.body.models[i].id = "onnx"
                     THEN ONNX_SESSION
                     ELSE KERAS_MODEL) ]_vars

\* C22 witness: GET /health answered with onnx as the only available backend
\* while the store names deepface, which is not available
C22_Witness ==
    /\ request.endpoint = "health"
    /\ response.body.onnx_available
    /\ ~response.body.deepface_available
    /\ ~response.body.keras_available
    /\ ~DEEPFACE_AVAILABLE
    /\ current_model_type = "deepface"

\* C23: with one request at a time, a POST /predict that passed file
\* validation calls the adapter of the backend current_model_type names,
\* once, and no library of another backend; when that backend is not
\* available it calls no adapter and no inference at all and answers
\* 500 'No model available', even when another backend is available.
C23_StoreGatesTheAdapter ==
    (request.endpoint = "predict" /\ ValidationError(request.upload) = "")
    => LET adapterOf == [deepface |-> "process_frame_with_deepface",
                         onnx |-> "process_frame_with_onnx",
                         keras |-> "process_frame_with_keras"]
           inferenceOf == [deepface |-> "DeepFace.analyze",
                           onnx |-> "ONNX_SESSION.run",
                           keras |-> "KERAS_MODEL.predict"]
           called == {calls[i].fn : i \in DOMAIN calls}
           adapters == called \cap {adapterOf[m] : m \in ModelIds}
           inferences == called \cap {inferenceOf[m] : m \in ModelIds}
       IN  IF Selectable(current_model_type)
           THEN /\ adapters = {adapterOf[current_model_type]}
                /\ Cardinality({i \in DOMAIN calls : calls[i].fn \in adapters}) = 1
                /\ inferences \subseteq {inferenceOf[current_model_type]}
           ELSE /\ adapters = {}
                /\ inferences = {}
                /\ response = [status |-> 500,
                               body |-> [error |-> "No model available"]]

\* C23 witness: a decodable upload while the store names deepface, which did
\* not load, and onnx is available: no adapter is called
C23_Witness ==
    /\ request.endpoint = "predict"
    /\ request.upload.frame # None
    /\ current_model_type = "deepface"
    /\ ~DEEPFACE_AVAILABLE
    /\ ONNX_SESSION
    /\ response.status = 500
    /\ response.body.error = "No model available"
    /\ Len(calls) = 1

\* C24: within one POST /predict the inference of the selected backend is
\* called at most once per detected rectangle (DeepFace.analyze at most once
\* per request), only one backend's inference appears among the calls, and a
\* rectangle whose inference raised has exactly one inference call: nothing
\* is re-attempted on the same or on another backend.
C24_NoRetry ==
    request.endpoint = "predict"
    => LET inferenceFns == {"DeepFace.analyze", "ONNX_SESSION.run",
                            "KERAS_MODEL.predict"}
           inferenceCalls == {k \in DOMAIN calls : calls[k].fn \in inferenceFns}
           times(fn, i) ==
               Cardinality({k \in DOMAIN calls : calls[k] = Call(fn, i)})
       IN  /\ Cardinality({calls[k].fn : k \in inferenceCalls}) <= 1
           /\ times("DeepFace.analyze", 0) <= 1
           /\ \A k \in inferenceCalls :
                 calls[k].fn = "DeepFace.analyze"
                 => Cardinality(inferenceCalls) = 1
           /\ (/\ ValidationError(request.upload) = ""
               /\ Dispatch \in {"onnx", "keras"})
              => LET faces == request.detected
                     runFn == IF Dispatch = "onnx" THEN "ONNX_SESSION.run"
                              ELSE "KERAS_MODEL.predict"
                 IN  /\ Cardinality(inferenceCalls) <= Len(faces)
                     /\ \A k \in inferenceCalls : calls[k].arg \in DOMAIN faces
                     /\ \A i \in DOMAIN faces :
                           /\ times(runFn, i) <= 1
                           /\ request.upload.frame # None
                              /\ faces[i].outcome.kind = "run_raises"
                              => times(runFn, i) = 1

\* C24 witness: onnx, two rectangles, the session raises on the first and
\* classifies the second; each was run once and the request answers 200
C24_Witness ==
    /\ request.endpoint = "predict"
    /\ ValidationError(request.upload) = ""
    /\ Dispatch = "onnx"
    /\ request.upload.frame # None
    /\ Len(request.detected) = 2
    /\ request.detected[1].outcome.kind = "run_raises"
    /\ request.detected[2].outcome.kind = "ok"
    /\ Cardinality({k \in DOMAIN calls : calls[k].fn = "ONNX_SESSION.run"}) = 2
    /\ response.status = 200

\* C25: when the cascade finds no rectangle in a decodable image, POST /predict
\* makes no preprocessing and no inference call and answers 400 with
\* success = FALSE and the error 'No face detected'; DeepFace entries that are
\* absent or all whole-image give the same answer; and POST /predict answers
\* 200 exactly when the result list of the adapter is not empty.
C25_ZeroFacesIs400 ==
    request.endpoint = "predict"
    => LET noFace == [status |-> 400,
                      body |-> [success |-> FALSE, error |-> "No face detected"]]
           decodable == /\ ValidationError(request.upload) = ""
                        /\ request.upload.frame # None
       IN  /\ (decodable /\ Dispatch \in {"onnx", "keras"} /\ request.detected = <<>>)
              => /\ response = noFace
                 /\ \A k \in DOMAIN calls :
                       calls[k].fn \notin {"preprocess", "ONNX_SESSION.run",
                                           "KERAS_MODEL.predict", "DeepFace.analyze"}
           /\ (/\ decodable /\ Dispatch = "deepface"
               /\ ~request.detected.raises
               /\ \A i \in DOMAIN request.detected.faces :
                     WholeImage(request.detected.faces[i].region,
                                request.upload.frame))
              => response = noFace
           /\ response.status = 200 <=> results # <<>>

\* C25 witness: keras selected, a decodable image in which the cascade finds
\* nothing
C25_Witness ==
    /\ request.endpoint = "predict"
    /\ Dispatch = "keras"
    /\ request.upload.frame # None
    /\ request.detected = <<>>
    /\ results = <<>>
    /\ response.status = 400
    /\ response.body.error = "No face detected"

\* C26: for keras and onnx, the k-th entry of the result list belongs to the
\* k-th classified rectangle; its emotion is the label at the position of the
\* maximum of that rectangle's 7-entry vector in the order Angry, Disgust,
\* Fear, Happy, Neutral, Sad, Surprise, its confidence is that maximum, and
\* among equal maxima the lowest position is the one reported.
C26_LabelOfFirstMaximum ==
    (/\ request.endpoint = "predict"
     /\ ValidationError(request.upload) = ""
     /\ Dispatch \in {"onnx", "keras"}
     /\ request.upload.frame # None)
    => LET faces == request.detected
           order == << <<"A","n","g","r","y">>,
                       <<"D","i","s","g","u","s","t">>,
                       <<"F","e","a","r">>,
                       <<"H","a","p","p","y">>,
                       <<"N","e","u","t","r","a","l">>,
                       <<"S","a","d">>,
                       <<"S","u","r","p","r","i","s","e">> >>
           classified(i) == faces[i].outcome.kind = "ok"
           rank(i) == Cardinality({j \in 1..i : classified(j)})
       IN  /\ Len(results) = Cardinality({i \in DOMAIN faces : classified(i)})
           /\ \A i \in DOMAIN faces :
                 classified(i)
                 => LET v == faces[i].outcome.predictions
                        r == results[rank(i)]
                    IN  /\ Len(v) = 7
                        /\ \E m \in 1..7 :
                              /\ \A j \in 1..7 : RatLeq(v[j], v[m])
                              /\ \A j \in 1..(m - 1) : RatLess(v[j], v[m])
                              /\ r.emotion = order[m]
                              /\ r.confidence = v[m]

\* C26 witness: a vector whose maximum 2/5 stands at Angry and at Sad is
\* reported as Angry with confidence 2/5
C26_Witness ==
    /\ request.endpoint = "predict"
    /\ Dispatch = "keras"
    /\ request.upload.frame # None
    /\ Len(request.detected) = 1
    /\ request.detected[1].outcome.kind = "ok"
    /\ RatEq(request.detected[1].outcome.predictions[1],
             request.detected[1].outcome.predictions[6])
    /\ response.status = 200
    /\ response.body.prediction = <<"A","n","g","r","y">>
    /\ response.body.confidence = Rat(2, 5)

\* C27: when two POST /api/settings requests that each carry a camera_index
\* and the id of an available backend run on two threads, the store after
\* both have made their writes is the complete update of one of them.
C27_ConcurrentUpdatesNotMixed ==
    LET full(w) == /\ threads[w].op = "settings"
                   /\ threads[w].pc \in {"read_camera", "read_model", "done"}
                   /\ "camera_index" \in DOMAIN threads[w].data
                   /\ "model_type" \in DOMAIN threads[w].data
                   /\ Selectable(threads[w].data.model_type)
        update(w) == [camera_index |-> threads[w].data.camera_index,
                      model_type |-> threads[w].data.model_type]
    IN  \A a \in DOMAIN threads : \A b \in DOMAIN threads :
            (a # b /\ full(a) /\ full(b))
            => StoreNow \in {update(a), update(b)}

\* C28: the body of a 200 answer to POST /api/settings is a pair that the
\* store held at one instant after that request's own writes, whatever the
\* other threads do meanwhile.
C28_SettingsResponseNotTorn ==
    \A w \in DOMAIN threads :
        (/\ threads[w].op = "settings"
         /\ threads[w].pc = "done"
         /\ threads[w].response.status = 200)
        => threads[w].response.body \in threads[w].held

\* C29: current_model_type is one of deepface, onnx, keras in every state,
\* and once the server is serving with current_model_type naming an
\* available backend, every later state names an available backend.
C29_StoreNamesKnownBackend ==
    /\ current_model_type \in ModelIds
    /\ [][ /\ current_model_type' \in ModelIds
           /\ (phase = "serving" /\ Selectable(current_model_type))
              => Selectable(current_model_type') ]_vars

\* C29 witness: a settings request naming keras, which did not load, answered
\* 400 while the store goes on naming onnx, which is available
C29_Witness ==
    /\ request.endpoint = "settings"
    /\ "model_type" \in DOMAIN request.data
    /\ request.data.model_type = "keras"
    /\ ~KERAS_MODEL
    /\ ONNX_SESSION
    /\ pre.model_type = "onnx"
    /\ current_model_type = "onnx"
    /\ response.status = 400

\* C30: two handlings of the same upload with the same current_model_type,
\* the same availability and the same detector and model outputs return the
\* same status and the same body, whatever current_camera_index is at each.
C30_PredictIgnoresCameraIndex ==
    first_run.runs = 2
    => /\ first_run.second_response.status = first_run.response.status
       /\ first_run.second_response.body = first_run.response.body

\* C30 witness: an upload answered 200 with camera 0 stored and again with
\* camera -1 stored
C30_Witness ==
    /\ first_run.runs = 2
    /\ first_run.store.camera_index = 0
    /\ first_run.second_store.camera_index = -1
    /\ first_run.response.status = 200
    /\ first_run.second_response.status = 200

====
